---- MODULE Spec2Model ----
(***************************************************************************)
(* Model of AbstractVolume (src/src/ai/backend/storage/abc.py): the        *)
(* constructor, mangle_vfpath and sanitize_vfpath, together with the       *)
(* pathlib operations they call (PurePosixPath parsing, the `/` join,      *)
(* Path.resolve(), PurePath.relative_to()) and the part of the filesystem  *)
(* that Path.resolve() reads (the symbolic links).                         *)
(*                                                                         *)
(* A file name is a sequence of one-character strings, a pure path is a    *)
(* record [abs, parts] (anchor "/" or none, then the components), and a    *)
(* 128-bit UUID is the sequence of the 16 base-256 digits of UUID.int,     *)
(* most significant first.                                                 *)
(***************************************************************************)
EXTENDS Integers, Sequences, FiniteSets, TLC

VARIABLES vols, fs, args, lastOp, firstMangle

vars == <<vols, fs, args, lastOp, firstMangle>>

-----------------------------------------------------------------------------
(* Bounds of the model *)

\* longest caller-supplied relative path that is enumerated exhaustively
MaxRelLen == 2
\* most symbolic links present in the filesystem at one time
MaxLinks == 1

-----------------------------------------------------------------------------
(* Names *)

Dot == <<".">>
DotDot == <<".", ".">>
N_mnt == <<"m", "n", "t">>
N_srv == <<"s", "r", "v">>
N_etc == <<"e", "t", "c">>
N_passwd == <<"p", "a", "s", "s", "w", "d">>
N_lnk == <<"l", "n", "k">>
N_sub == <<"s", "u", "b">>
N_pfx == <<"p", "f", "x">>

\* Python's None
None == [isNone |-> TRUE]

\* os.getcwd() of the worker process, as resolved components below "/"
Cwd == <<N_srv>>

-----------------------------------------------------------------------------
(* pathlib *)

\* PurePosixPath(s) for the text s given as its "/"-separated pieces: "."
\* pieces are dropped by the parser, ".." pieces are kept.
PurePosixPath(abs, pieces) ==
    [abs |-> abs, parts |-> SelectSeq(pieces, LAMBDA c : c # Dot)]

\* a / b  (PurePath.__truediv__): an absolute right operand replaces the left
Join(a, b) ==
    IF b.abs THEN b ELSE [abs |-> a.abs, parts |-> a.parts \o b.parts]

\* child.relative_to(parent) does not raise ValueError: the anchors agree and
\* parent's components are a prefix of child's (a comparison of text only)
IsRelativeTo(child, parent) ==
    /\ child.abs = parent.abs
    /\ Len(parent.parts) <= Len(child.parts)
    /\ SubSeq(child.parts, 1, Len(parent.parts)) = parent.parts

\* path.rpartition("/")[0] on the text of resolved components
Parent(path) == IF path = <<>> THEN <<>> ELSE SubSeq(path, 1, Len(path) - 1)

\* _PosixFlavour.resolve()._resolve(path, rest), strict=False, as in the
\* pathlib of Python 3.8: walks rest over the links of filesystem f; a name
\* that is no link (a directory, a file, nothing at all) is appended as it is;
\* `visiting` are the links being expanded (seen[newpath] is None), meeting
\* one of them again is a symlink loop.
RECURSIVE _resolve(_, _, _, _)
_resolve(f, path, rest, visiting) ==
    IF rest = <<>> THEN [ok |-> TRUE, path |-> path]
    ELSE LET name == Head(rest)
             newpath == Append(path, name)
         IN  IF name = DotDot
                 THEN _resolve(f, Parent(path), Tail(rest), visiting)
             ELSE IF newpath \in visiting
                 THEN [ok |-> FALSE, path |-> newpath]
             ELSE IF newpath \in DOMAIN f
                 THEN LET target == f[newpath]
                          base == IF target.abs THEN <<>> ELSE path
                          sub == _resolve(f, base, target.parts,
                                          visiting \cup {newpath})
                      IN  IF sub.ok
                              THEN _resolve(f, sub.path, Tail(rest), visiting)
                              ELSE sub
             ELSE _resolve(f, newpath, Tail(rest), visiting)

\* Path.resolve(): absolute, links followed, ".." eliminated; a relative path
\* starts from the working directory.  ok = FALSE is RuntimeError (loop).
Resolve(f, p) ==
    LET r == _resolve(f, IF p.abs THEN <<>> ELSE Cwd, p.parts, {})
    IN  IF r.ok THEN [ok |-> TRUE, path |-> [abs |-> TRUE, parts |-> r.path]]
                ELSE r

\* os.path.normpath on components: ".." removes the component before it,
\* stays put at "/" and is kept at the front of a relative path.  No link is
\* read.  (Used by the properties and by one altered sanitize_vfpath.)
RECURSIVE NormParts(_, _, _)
NormParts(abs, done, rest) ==
    IF rest = <<>> THEN done
    ELSE IF Head(rest) # DotDot
        THEN NormParts(abs, Append(done, Head(rest)), Tail(rest))
    ELSE IF done # <<>> /\ done[Len(done)] # DotDot
        THEN NormParts(abs, Parent(done), Tail(rest))
    ELSE IF abs
        THEN NormParts(abs, done, Tail(rest))
    ELSE NormParts(abs, Append(done, DotDot), Tail(rest))

LexNorm(p) == [abs |-> p.abs, parts |-> NormParts(p.abs, <<>>, p.parts)]

-----------------------------------------------------------------------------
(* uuid.UUID *)

HexChars == <<"0", "1", "2", "3", "4", "5", "6", "7",
              "8", "9", "a", "b", "c", "d", "e", "f">>

\* UUID.hex: '%032x' % self.int
UUIDHex(vfid) ==
    [i \in 1..(2 * Len(vfid)) |->
        IF i % 2 = 1 THEN HexChars[(vfid[(i + 1) \div 2] \div 16) + 1]
                     ELSE HexChars[(vfid[i \div 2] % 16) + 1]]

-----------------------------------------------------------------------------
(* AbstractVolume *)

\* __init__
AbstractVolume(local_config, mount_path, fsprefix, options) ==
    [local_config |-> local_config,
     mount_path   |-> mount_path,
     fsprefix     |-> IF fsprefix = None THEN PurePosixPath(FALSE, <<Dot>>)
                                         ELSE fsprefix,
     config       |-> IF options = None THEN <<>> ELSE options]

\* altered: prefix2 = vfid.hex[0:2]
mangle_vfpath_dupprefix(self, vfid) ==
    LET hex == UUIDHex(vfid)
        prefix1 == SubSeq(hex, 1, 2)
        prefix2 == SubSeq(hex, 1, 2)
        rest == SubSeq(hex, 5, Len(hex))
    IN  Join(self.mount_path,
             [abs |-> FALSE, parts |-> <<prefix1, prefix2, rest>>])

\* altered: rest = vfid.hex[5:]
mangle_vfpath_offbyone(self, vfid) ==
    LET hex == UUIDHex(vfid)
        prefix1 == SubSeq(hex, 1, 2)
        prefix2 == SubSeq(hex, 3, 4)
        rest == SubSeq(hex, 6, Len(hex))
    IN  Join(self.mount_path,
             [abs |-> FALSE, parts |-> <<prefix1, prefix2, rest>>])

\* altered: Path(self.mount_path, self.fsprefix, prefix1, prefix2, rest)
mangle_vfpath_prefixed(self, vfid) ==
    LET hex == UUIDHex(vfid)
        prefix1 == SubSeq(hex, 1, 2)
        prefix2 == SubSeq(hex, 3, 4)
        rest == SubSeq(hex, 5, Len(hex))
    IN  Join(Join(self.mount_path, self.fsprefix),
             [abs |-> FALSE, parts |-> <<prefix1, prefix2, rest>>])

mangle_vfpath(self, vfid) ==
    LET hex == UUIDHex(vfid)
        prefix1 == SubSeq(hex, 1, 2)
        prefix2 == SubSeq(hex, 3, 4)
        rest == SubSeq(hex, 5, Len(hex))
    IN  Join(self.mount_path,
             [abs |-> FALSE, parts |-> <<prefix1, prefix2, rest>>])

\* altered: the relative_to check is left out
sanitize_vfpath_unchecked(self, vfid, relpath, f) ==
    LET rel == IF relpath = None THEN PurePosixPath(FALSE, <<Dot>>) ELSE relpath
        vfpath == mangle_vfpath(self, vfid)
        target_path == Resolve(f, Join(vfpath, rel))
    IN  IF ~target_path.ok THEN [kind |-> "RuntimeError"]
        ELSE [kind |-> "path", path |-> target_path.path]

\* altered: except ValueError: return vfpath
sanitize_vfpath_clamped(self, vfid, relpath, f) ==
    LET rel == IF relpath = None THEN PurePosixPath(FALSE, <<Dot>>) ELSE relpath
        vfpath == mangle_vfpath(self, vfid)
        target_path == Resolve(f, Join(vfpath, rel))
    IN  IF ~target_path.ok THEN [kind |-> "RuntimeError"]
        ELSE IF IsRelativeTo(target_path.path, vfpath)
            THEN [kind |-> "path", path |-> target_path.path]
            ELSE [kind |-> "path", path |-> vfpath]

\* altered: target_path = Path(os.path.abspath(vfpath / relpath)), which
\* follows no link
sanitize_vfpath_lexical(self, vfid, relpath, f) ==
    LET rel == IF relpath = None THEN PurePosixPath(FALSE, <<Dot>>) ELSE relpath
        vfpath == mangle_vfpath(self, vfid)
        joined == Join(vfpath, rel)
        target_path == LexNorm([abs |-> TRUE,
                                parts |-> IF joined.abs THEN joined.parts
                                          ELSE Cwd \o joined.parts])
    IN  IF IsRelativeTo(target_path, vfpath)
            THEN [kind |-> "path", path |-> target_path]
            ELSE [kind |-> "PermissionError"]

\* the outcome of sanitize_vfpath on filesystem f: the returned path, or the
\* exception raised (PermissionError, or RuntimeError out of resolve())
sanitize_vfpath(self, vfid, relpath, f) ==
    LET rel == IF relpath = None THEN PurePosixPath(FALSE, <<Dot>>) ELSE relpath
        vfpath == mangle_vfpath(self, vfid)
        target_path == Resolve(f, Join(vfpath, rel))
    IN  IF ~target_path.ok THEN [kind |-> "RuntimeError"]
        ELSE IF IsRelativeTo(target_path.path, vfpath)
            THEN [kind |-> "path", path |-> target_path.path]
            ELSE [kind |-> "PermissionError"]

-----------------------------------------------------------------------------
(* Inputs *)

\* UUID('12345678-1234-5678-1234-567812345678')
VfidExample == <<18, 52, 86, 120, 18, 52, 86, 120,
                 18, 52, 86, 120, 18, 52, 86, 120>>
\* UUID('12355678-1234-5678-1234-567812345678'): differs in the second byte
VfidSibling == <<18, 53, 86, 120, 18, 52, 86, 120,
                 18, 52, 86, 120, 18, 52, 86, 120>>
\* UUID(int=1): thirty-one leading zero digits
VfidLow == <<0, 0, 0, 0, 0, 0, 0, 0, 0, 0, 0, 0, 0, 0, 0, 1>>

VFIDs == {VfidExample, VfidSibling, VfidLow}

\* mount_path values a volume is constructed with: Path('/mnt'), Path('mnt')
MountAbs == [abs |-> TRUE, parts |-> <<N_mnt>>]
MountRel == [abs |-> FALSE, parts |-> <<N_mnt>>]
Mounts == {MountAbs, MountRel}

LocalConfig == [x \in {"storage-proxy"} |-> "node-1"]
Options == [x \in {"quota"} |-> "on"]
FsPrefix == PurePosixPath(FALSE, <<N_pfx>>)

\* the directory of VfidExample under /mnt, as components below "/"
ExampleRoot == <<N_mnt, <<"1", "2">>, <<"3", "4">>,
                 <<"5", "6", "7", "8", "1", "2", "3", "4", "5", "6", "7", "8",
                   "1", "2", "3", "4", "5", "6", "7", "8", "1", "2", "3", "4",
                   "5", "6", "7", "8">> >>
ExampleRest == ExampleRoot[4]

\* texts of caller-supplied relative paths, as "/"-separated pieces
RelPieces == {Dot, DotDot, N_lnk, ExampleRest}
RelTexts == UNION {[1..k -> RelPieces] : k \in 0..MaxRelLen}

\* the relpath arguments: None, every relative text up to MaxRelLen pieces,
\* and some longer and absolute ones
RelPaths ==
    {None}
    \cup {PurePosixPath(FALSE, t) : t \in RelTexts}
    \cup {PurePosixPath(FALSE, <<DotDot, DotDot, N_etc, N_passwd>>),
          PurePosixPath(FALSE, <<N_sub, DotDot, N_lnk>>),
          PurePosixPath(FALSE, <<DotDot, ExampleRest, N_sub>>),
          PurePosixPath(FALSE, <<Dot, N_lnk, Dot, N_sub>>),
          PurePosixPath(TRUE, <<N_etc, N_passwd>>),
          PurePosixPath(TRUE, Append(ExampleRoot, N_lnk))}

\* where a symbolic link may be created: inside the example vfolder, and in
\* place of the mount directory itself
LinkSites == {Append(ExampleRoot, N_lnk), <<N_mnt>>}
\* what it may point to: /etc, ".." and "lnk"
LinkTargets == {PurePosixPath(TRUE, <<N_etc>>),
                PurePosixPath(FALSE, <<DotDot>>),
                PurePosixPath(FALSE, <<N_lnk>>)}

-----------------------------------------------------------------------------
(* State machine *)

\* vols: the volumes of the worker, constructed at startup
\* fs: the symbolic links of the filesystem, link path -> target
\* args: the arguments the caller passes: which volume, vfid, relpath
\* lastOp: the most recent operation and its outcome
\* firstMangle: what the first mangle_vfpath call returned and whether the call
\*   was made again since (None before the first call)

Init ==
    /\ \E m1 \in Mounts, m2 \in Mounts :
          vols = <<AbstractVolume(LocalConfig, m1, None, None),
                   AbstractVolume(LocalConfig, m2, FsPrefix, Options)>>
    /\ fs = [p \in {} |-> None]
    /\ \E i \in {1, 2}, v \in VFIDs, rel \in RelPaths :
          args = [vol |-> i, vfid |-> v, relpath |-> rel]
    /\ lastOp = [op |-> "init"]
    /\ firstMangle = None

\* altered: mangle_vfpath keeps what it computed in self.mount_path
MangleCallCaching ==
    LET r == mangle_vfpath(vols[args.vol], args.vfid)
    IN  /\ lastOp' = [op |-> "mangle", result |-> r]
        /\ firstMangle' = IF firstMangle = None
                              THEN [path |-> r, again |-> FALSE]
                              ELSE [firstMangle EXCEPT !.again = TRUE]
        /\ vols' = [vols EXCEPT ![args.vol].mount_path = r]
        /\ UNCHANGED <<fs, args>>

MangleCall ==
    LET r == mangle_vfpath(vols[args.vol], args.vfid)
    IN  /\ lastOp' = [op |-> "mangle", result |-> r]
        /\ firstMangle' = IF firstMangle = None
                              THEN [path |-> r, again |-> FALSE]
                              ELSE [firstMangle EXCEPT !.again = TRUE]
        /\ UNCHANGED <<vols, fs, args>>

\* altered: sanitize_vfpath first does
\* self.mount_path = self.mount_path.resolve()
SanitizeCallResolving ==
    LET m == Resolve(fs, vols[args.vol].mount_path)
        self == IF m.ok THEN [vols[args.vol] EXCEPT !.mount_path = m.path]
                        ELSE vols[args.vol]
    IN  /\ lastOp' = [op |-> "sanitize",
                      result |-> sanitize_vfpath(self, args.vfid,
                                                 args.relpath, fs)]
        /\ vols' = [vols EXCEPT ![args.vol] = self]
        /\ UNCHANGED <<fs, args, firstMangle>>

SanitizeCall ==
    /\ lastOp' = [op |-> "sanitize",
                  result |-> sanitize_vfpath(vols[args.vol], args.vfid,
                                             args.relpath, fs)]
    /\ UNCHANGED <<vols, fs, args, firstMangle>>

\* os.symlink(target, site), by a backend or by anything else on the host
Symlink ==
    \E site \in LinkSites \ DOMAIN fs, target \in LinkTargets :
        /\ Cardinality(DOMAIN fs) < MaxLinks
        /\ fs' = [p \in DOMAIN fs \cup {site} |->
                     IF p = site THEN target ELSE fs[p]]
        /\ lastOp' = [op |-> "symlink"]
        /\ UNCHANGED <<vols, args, firstMangle>>

\* os.unlink(site)
Unlink ==
    \E site \in DOMAIN fs :
        /\ fs' = [p \in DOMAIN fs \ {site} |-> fs[p]]
        /\ lastOp' = [op |-> "unlink"]
        /\ UNCHANGED <<vols, args, firstMangle>>

Next == MangleCall \/ SanitizeCall \/ Symlink \/ Unlink

Spec == Init /\ [][Next]_vars

-----------------------------------------------------------------------------
(* Notions the properties are stated in *)

Range(q) == {q[k] : k \in DOMAIN q}

\* p is root or lies below it, component by component
Descends(p, root) ==
    /\ p.abs = root.abs
    /\ \E k \in 0..Len(p.parts) : SubSeq(p.parts, 1, k) = root.parts

\* the volume called, the directory of the vfid and where it really is
Self == vols[args.vol]
Root == mangle_vfpath(Self, args.vfid)
PhysRoot == Resolve(fs, Root)

\* the path asked for, as text, and where it really leads
Asked == Join(Root, IF args.relpath = None THEN [abs |-> FALSE, parts |-> <<>>]
                                           ELSE args.relpath)
Target == Resolve(fs, Asked)

\* the links that resolving rest from path expands
RECURSIVE _followed(_, _, _, _)
_followed(f, path, rest, visiting) ==
    IF rest = <<>> THEN {}
    ELSE LET name == Head(rest)
             newpath == Append(path, name)
         IN  IF name = DotDot
                 THEN _followed(f, Parent(path), Tail(rest), visiting)
             ELSE IF newpath \in visiting
                 THEN {}
             ELSE IF newpath \in DOMAIN f
                 THEN LET target == f[newpath]
                          base == IF target.abs THEN <<>> ELSE path
                          sub == _resolve(f, base, target.parts,
                                          visiting \cup {newpath})
                      IN  {newpath}
                          \cup _followed(f, base, target.parts,
                                         visiting \cup {newpath})
                          \cup (IF sub.ok
                                    THEN _followed(f, sub.path, Tail(rest),
                                                   visiting)
                                    ELSE {})
             ELSE _followed(f, newpath, Tail(rest), visiting)

LinksFollowed(f, p) == _followed(f, IF p.abs THEN <<>> ELSE Cwd, p.parts, {})

AbsPath(parts) == [abs |-> TRUE, parts |-> parts]

\* the path asked for runs through a link that sits inside the vfolder and
\* points outside it
EscapingLink ==
    /\ PhysRoot.ok
    /\ \E site \in LinksFollowed(fs, Asked) :
          /\ Descends(AbsPath(site), PhysRoot.path)
          /\ LET t == Resolve(fs, AbsPath(site))
             IN  t.ok /\ ~Descends(t.path, PhysRoot.path)

Mangled == lastOp.op = "mangle"
Sanitized == lastOp.op = "sanitize"
Returned == Sanitized /\ lastOp.result.kind = "path"
Refused == Sanitized /\ lastOp.result.kind = "PermissionError"

LowerHex == <<"0", "1", "2", "3", "4", "5", "6", "7",
              "8", "9", "a", "b", "c", "d", "e", "f">>
IsLowerHex(c) == \E n \in 1..Len(LowerHex) : LowerHex[n] = c
DigitValue(c) == (CHOOSE n \in 1..Len(LowerHex) : LowerHex[n] = c) - 1

\* ids that differ from v in exactly one byte
IdBytes == {0, 255}
Neighbours(v) == {[v EXCEPT ![k] = b] : k \in DOMAIN v, b \in IdBytes} \ {v}

-----------------------------------------------------------------------------
(* Properties *)

\* C1: whenever sanitize_vfpath returns a path, that path is mangle_vfpath(vfid)
\* or a descendant of it, as text and as the place it really is; no path
\* outside that subtree is ever returned.
C1_Contained ==
    Returned =>
        /\ Descends(lastOp.result.path, Root)
        /\ PhysRoot.ok
        /\ Descends(lastOp.result.path, PhysRoot.path)

\* a path strictly below the vfolder was returned for a relpath with ".." in
\* it while a symbolic link exists
C1_Witness ==
    /\ Returned
    /\ args.relpath # None
    /\ DotDot \in Range(args.relpath.parts)
    /\ DOMAIN fs # {}
    /\ lastOp.result.path # Root

\* C2: a relative path with a ".." in it that resolves outside the directory of
\* the vfid makes sanitize_vfpath raise PermissionError; no path is returned
\* (in particular not the vfolder root).
C2_TraversalRefused ==
    ( /\ Sanitized
      /\ args.relpath # None
      /\ ~args.relpath.abs
      /\ DotDot \in Range(args.relpath.parts)
      /\ Target.ok
      /\ PhysRoot.ok
      /\ ~Descends(Target.path, PhysRoot.path) )
    => lastOp.result = [kind |-> "PermissionError"]

\* '../../etc/passwd' on a volume mounted at /mnt, no link anywhere, refused
C2_Witness ==
    /\ Refused
    /\ args.relpath = PurePosixPath(FALSE, <<DotDot, DotDot, N_etc, N_passwd>>)
    /\ Self.mount_path = MountAbs
    /\ DOMAIN fs = {}

\* C3 (as claimed): sanitize_vfpath(v, None) succeeds and returns exactly
\* mangle_vfpath(v), for every vfid and every mount_path.
C3_NoneIsRoot ==
    (Sanitized /\ args.relpath = None)
    => lastOp.result = [kind |-> "path", path |-> Root]

\* C3, where it does hold: on the absolute mount_path, with no link on the way
\* to the vfolder directory, sanitize_vfpath(v, None) is mangle_vfpath(v).
C3_OnCanonicalMount ==
    (Self.mount_path = MountAbs /\ LinksFollowed(fs, Root) = {})
    => C3_NoneIsRoot

\* C4: the path mangle_vfpath returns for a vfid is returned for no other id
\* on the same volume.
C4_CollisionFree ==
    Mangled =>
        \A v \in (VFIDs \cup Neighbours(args.vfid)) \ {args.vfid} :
            mangle_vfpath(Self, v) # lastOp.result

\* mangle_vfpath was called for the id that differs from the example id in
\* one byte
C4_Witness == Mangled /\ args.vfid = VfidSibling

\* C5: mangle_vfpath(vfid) is mount_path / s1 / s2 / s3 with s1, s2, s3 of 2, 2
\* and 28 lowercase hex digits that, read together, are the 32-digit rendering
\* of the id; the example id maps to <mount>/12/34/5678123456781234567812345678.
C5_Layout ==
    Mangled =>
        LET m == Self.mount_path
            r == lastOp.result
            segs == SubSeq(r.parts, Len(m.parts) + 1, Len(r.parts))
            digits == segs[1] \o segs[2] \o segs[3]
        IN  /\ r.abs = m.abs
            /\ SubSeq(r.parts, 1, Len(m.parts)) = m.parts
            /\ Len(segs) = 3
            /\ Len(segs[1]) = 2 /\ Len(segs[2]) = 2 /\ Len(segs[3]) = 28
            /\ \A k \in 1..Len(digits) : IsLowerHex(digits[k])
            /\ \A k \in 1..16 :
                  16 * DigitValue(digits[2 * k - 1]) + DigitValue(digits[2 * k])
                      = args.vfid[k]
            /\ (args.vfid = VfidExample /\ m = MountAbs) => r.parts = ExampleRoot

\* the example id was mangled on a volume mounted at /mnt
C5_Witness ==
    /\ Mangled
    /\ args.vfid = VfidExample
    /\ Self.mount_path = MountAbs
    /\ lastOp.result = AbsPath(ExampleRoot)

\* C6 (as claimed): a relpath whose resolution runs through a link inside the
\* vfolder that points outside it is refused with PermissionError.
C6_LinkAlwaysRefused ==
    (Sanitized /\ args.relpath # None /\ EscapingLink) => Refused

\* C6 (amended): such a relpath is refused with PermissionError whenever its
\* resolution ends outside the vfolder; the unresolved path is not returned.
C6_LinkResolved ==
    ( /\ Sanitized
      /\ args.relpath # None
      /\ EscapingLink
      /\ Target.ok
      /\ ~Descends(Target.path, PhysRoot.path) )
    => lastOp.result = [kind |-> "PermissionError"]

\* refused although the path asked for is, as text, inside the vfolder
C6_Witness ==
    /\ Refused
    /\ args.relpath # None
    /\ EscapingLink
    /\ Descends(LexNorm(Asked), Root)
    /\ ~Descends(Target.path, PhysRoot.path)

\* C7: every mangle_vfpath call returns what the first one returned, whatever
\* happened in between, and the call changes neither the volumes nor the
\* filesystem.
C7_Deterministic ==
    /\ [](Mangled => lastOp.result = firstMangle.path)
    /\ [][lastOp'.op = "mangle" => (vols' = vols /\ fs' = fs)]_vars

\* mangle_vfpath was called again, with a symbolic link present
C7_Witness == Mangled /\ firstMangle.again /\ DOMAIN fs # {}

\* C8: a sanitize_vfpath call, failed or successful, changes neither the
\* volumes' fields nor the filesystem.
C8_ReadOnly ==
    [][lastOp'.op = "sanitize" => (vols' = vols /\ fs' = fs)]_vars

\* a call failed with PermissionError while a symbolic link exists
C8_Witness == Refused /\ DOMAIN fs # {}

\* C9 (as claimed): a relpath that follows no link and that, joined onto
\* mangle_vfpath(vfid) and with ".." eliminated, is mangle_vfpath(vfid) or
\* below it, is accepted, and that normalized path is returned.
C9_InsideAccepted ==
    ( /\ Sanitized
      /\ args.relpath # None
      /\ LinksFollowed(fs, Asked) = {}
      /\ Descends(LexNorm(Asked), Root) )
    => lastOp.result = [kind |-> "path", path |-> LexNorm(Asked)]

\* C9, where it does hold: on the absolute mount_path every such relpath is
\* accepted, those that leave the vfolder and come back included.
C9_OnCanonicalMount == (Self.mount_path = MountAbs) => C9_InsideAccepted

\* C10: fsprefix and options do not enter the result: every volume on the same
\* mount_path gives the same result for the same arguments.
C10_PrefixIgnored ==
    \A j \in DOMAIN vols :
        vols[j].mount_path = Self.mount_path =>
            /\ Mangled => lastOp.result = mangle_vfpath(vols[j], args.vfid)
            /\ Sanitized =>
                  lastOp.result = sanitize_vfpath(vols[j], args.vfid,
                                                  args.relpath, fs)

\* mangle_vfpath was called on a volume that shares its mount_path with a
\* volume of another fsprefix
C10_Witness ==
    /\ Mangled
    /\ \E j \in DOMAIN vols :
          /\ vols[j].mount_path = Self.mount_path
          /\ vols[j].fsprefix # Self.fsprefix

====
